---- MODULE Spec2Model ----
(***************************************************************************)
(* Model of the HalluciFix maintenance scripts:                            *)
(*   clean-unused-vars.py    UnusedVariableCleaner                         *)
(*   fix-console-logging.py  ConsoleToLoggingMigrator                      *)
(* Texts are sequences of one-character strings.  Offsets are the 0-based  *)
(* offsets of the Python code; spans are half open, as re.Match spans are. *)
(***************************************************************************)
EXTENDS Integers, Sequences, FiniteSets, TLC

VARIABLES
  input,      \* the text handed to remove_unused_variables (first application)
  content,    \* local `content` of remove_unused_variables
  snap,       \* the string object the running re.finditer iterates over
  iter,       \* the matches re.finditer yields on snap
  idx,        \* position of the running for-loop in iter
  pc,         \* "destructuring" | "simple" | "done"
  run,        \* 1: first application, 2: application to the first result
  first,      \* result of the first application
  judged,     \* indexes of iter (simple loop, run 1) that took the `not used` branch
  calls,              \* the call statements original_content is made of
  original_content,   \* local `original_content` of replace_console_statements
  migrated,           \* local `content` of replace_console_statements
  rewritten,          \* per character of migrated: written by a replacement of this call
  step,               \* number of the next pattern to substitute, 11 when returned
  replacements_made,  \* local `replacements_made` of replace_console_statements
  tool,            \* "cleaner": UnusedVariableCleaner, "migrator": ConsoleToLoggingMigrator
  fs,              \* the files the directory walk yields, in order: their text on disk
  at,              \* number of the file the loop is at
  stage,           \* where the run is: "loop", "probe", "read", "transform", "write",
                   \* "except", "done"
  buf,             \* local `original_content` of clean_file / process_file
  out,             \* the transformed text about to be written
  total_files,     \* self.total_files
  modified_files,  \* self.modified_files
  amount,          \* self.variables_removed / self.console_statements_fixed
  raised,          \* <<file, operation>> pairs: the operation raised on that file
  logged,          \* files for which an ERROR line was logged
  counted          \* files for which modified_files was incremented

cleanerVars == <<input, content, snap, iter, idx, pc, run, first, judged>>
loggingVars == <<calls, original_content, migrated, rewritten, step, replacements_made>>
driverVars == <<tool, fs, at, stage, buf, out, total_files, modified_files, amount,
                raised, logged, counted>>
vars == <<cleanerVars, loggingVars, driverVars>>

----------------------------------------------------------------------------
(* Python string primitives *)

Min(a, b) == IF a < b THEN a ELSE b
Max(a, b) == IF a > b THEN a ELSE b

\* s[i:j] for 0 <= i, 0 <= j (slices clamp to the length)
Slice(s, i, j) == SubSeq(s, i + 1, Min(j, Len(s)))

\* s[i:]
SliceFrom(s, i) == SubSeq(s, i + 1, Len(s))

\* s[i], "" when i is outside the text
CharAt(s, i) == IF i >= 0 /\ i < Len(s) THEN s[i + 1] ELSE ""

\* s.startswith(lit, i)
StartsWithAt(s, i, lit) ==
  /\ i >= 0
  /\ i + Len(lit) <= Len(s)
  /\ SubSeq(s, i + 1, i + Len(lit)) = lit

\* s.find(c, i) for a one-character c
Find(s, c, i) ==
  IF \E j \in i..(Len(s) - 1) : s[j + 1] = c
  THEN CHOOSE j \in i..(Len(s) - 1) :
         s[j + 1] = c /\ \A k \in i..(j - 1) : s[k + 1] # c
  ELSE -1

\* s.rfind(c, 0, e) for a one-character c
RFind(s, c, e) ==
  LET hi == Min(e, Len(s)) - 1 IN
  IF \E j \in 0..hi : s[j + 1] = c
  THEN CHOOSE j \in 0..hi : s[j + 1] = c /\ \A k \in (j + 1)..hi : s[k + 1] # c
  ELSE -1

\* sub in s
Contains(s, sub) == \E i \in 0..(Len(s) - Len(sub)) : StartsWithAt(s, i, sub)

\* s.count(c) for a one-character c
Count(s, c) == Cardinality({i \in 1..Len(s) : s[i] = c})

\* the characters the regex classes \s and \w accept (ASCII texts)
Space == {" ", "\n", "\t"}
WordChars ==
  {"a","b","c","d","e","f","g","h","i","j","k","l","m","n","o","p","q","r","s","t",
   "u","v","w","x","y","z","A","B","C","D","E","F","G","H","I","J","K","L","M","N",
   "O","P","Q","R","S","T","U","V","W","X","Y","Z","0","1","2","3","4","5","6","7",
   "8","9","_"}

IsSpace(c) == c \in Space
IsWord(c) == c \in WordChars

\* end of the longest run of \s starting at i  (greedy \s*)
SkipSpace(s, i) ==
  CHOOSE j \in i..Max(i, Len(s)) :
    /\ \A k \in i..(j - 1) : IsSpace(CharAt(s, k))
    /\ ~IsSpace(CharAt(s, j))

\* end of the longest run of \w starting at i  (greedy \w+)
SkipWord(s, i) ==
  CHOOSE j \in i..Max(i, Len(s)) :
    /\ \A k \in i..(j - 1) : IsWord(CharAt(s, k))
    /\ ~IsWord(CharAt(s, j))

\* v.strip()
RECURSIVE LStrip(_)
LStrip(s) == IF s # <<>> /\ IsSpace(Head(s)) THEN LStrip(Tail(s)) ELSE s
RECURSIVE RStrip(_)
RStrip(s) ==
  IF s # <<>> /\ IsSpace(s[Len(s)]) THEN RStrip(SubSeq(s, 1, Len(s) - 1)) ELSE s
Strip(s) == RStrip(LStrip(s))

\* s.split(c) for a one-character c
RECURSIVE Split(_, _)
Split(s, c) ==
  LET j == Find(s, c, 0) IN
  IF j = -1 THEN <<s>> ELSE <<Slice(s, 0, j)>> \o Split(SliceFrom(s, j + 1), c)

\* sep.join(parts)
RECURSIVE Join(_, _)
Join(parts, sep) ==
  IF parts = <<>> THEN <<>>
  ELSE IF Len(parts) = 1 THEN parts[1]
  ELSE parts[1] \o sep \o Join(Tail(parts), sep)

----------------------------------------------------------------------------
(* clean-unused-vars.py *)

KwConst == <<"c","o","n","s","t">>
KwLet == <<"l","e","t">>
KwVar == <<"v","a","r">>

NoMatch == [start |-> -1, end |-> -1, group |-> <<>>]

\* \b at offset i: exactly one of the characters around i is a word character
Boundary(s, i) == IsWord(CharAt(s, i - 1)) # IsWord(CharAt(s, i))

\* var_name matched as a plain substring, without the two \b
SubstringMatchAt(s, i, name) == StartsWithAt(s, i, name)

\* r'\b' + re.escape(var_name) + r'\b' matches at offset i
WordMatchAt(s, i, name) ==
  StartsWithAt(s, i, name) /\ Boundary(s, i) /\ Boundary(s, i + Len(name))

\* len(re.findall(pattern, content)), scanning from offset i: the leftmost match
\* at or after i is counted and the scan goes on behind it
RECURSIVE CountWord(_, _, _)
CountWord(s, i, name) ==
  LET hits == {p \in i..Len(s) : WordMatchAt(s, p, name)} IN
  IF hits = {} THEN 0
  ELSE LET p == CHOOSE x \in hits : \A y \in hits : x <= y
       IN 1 + CountWord(s, p + Max(Len(name), 1), name)

\* usage_count = len(matches) - 1; return usage_count > 0
is_variable_used(var_name, text) == CountWord(text, 0, var_name) - 1 > 0

\* r'const\s+\{\s*([^}]+)\s*\}\s*=' tried at offset p
DestructuringMatchAt(s, p) ==
  IF ~StartsWithAt(s, p, KwConst) THEN NoMatch
  ELSE
    LET q == SkipSpace(s, p + Len(KwConst)) IN
    IF q = p + Len(KwConst) \/ CharAt(s, q) # "{" THEN NoMatch
    ELSE
      LET cb == Find(s, "}", q + 1) IN
      IF cb = -1 \/ cb = q + 1 THEN NoMatch
      ELSE
        LET e  == SkipSpace(s, cb + 1)
            ws == SkipSpace(s, q + 1)
            gs == IF ws < cb THEN ws ELSE cb - 1
        IN IF CharAt(s, e) = "="
           THEN [start |-> p, end |-> e + 1, group |-> Slice(s, gs, cb)]
           ELSE NoMatch

\* list(re.finditer(destructuring_pattern, s)) from offset pos
RECURSIVE DestructuringIter(_, _)
DestructuringIter(s, pos) ==
  LET hits == {p \in pos..(Len(s) - 1) : DestructuringMatchAt(s, p).start # -1} IN
  IF hits = {} THEN <<>>
  ELSE LET m == DestructuringMatchAt(s, CHOOSE x \in hits : \A y \in hits : x <= y)
       IN <<m>> \o DestructuringIter(s, m.end)

\* the keyword of (const|let|var) found at offset p, <<>> when none
KeywordAt(s, p) ==
  IF StartsWithAt(s, p, KwConst) THEN KwConst
  ELSE IF StartsWithAt(s, p, KwLet) THEN KwLet
  ELSE IF StartsWithAt(s, p, KwVar) THEN KwVar
  ELSE <<>>

\* r'(const|let|var)\s+(\w+)\s*=\s*[^;]+;' tried at offset p; group is group(2)
SimpleMatchAt(s, p) ==
  LET kw == KeywordAt(s, p) IN
  IF kw = <<>> THEN NoMatch
  ELSE
    LET q == SkipSpace(s, p + Len(kw))
        w == SkipWord(s, q)
        e == SkipSpace(s, w)
        sc == Find(s, ";", e + 1)
    IN IF /\ q > p + Len(kw)
          /\ w > q
          /\ CharAt(s, e) = "="
          /\ CharAt(s, e + 1) \notin {"", ";"}
          /\ sc # -1
       THEN [start |-> p, end |-> sc + 1, group |-> Slice(s, q, w)]
       ELSE NoMatch

\* list(re.finditer(simple_var_pattern, s)) from offset pos
RECURSIVE SimpleIter(_, _)
SimpleIter(s, pos) ==
  LET hits == {p \in pos..(Len(s) - 1) : SimpleMatchAt(s, p).start # -1} IN
  IF hits = {} THEN <<>>
  ELSE LET m == SimpleMatchAt(s, CHOOSE x \in hits : \A y \in hits : x <= y)
       IN <<m>> \o SimpleIter(s, m.end)

\* vars_list = [v.strip() for v in vars_str.split(',') if v.strip()]
RECURSIVE StripAll(_)
StripAll(parts) ==
  IF parts = <<>> THEN <<>>
  ELSE LET v == Strip(Head(parts)) IN
       (IF v # <<>> THEN <<v>> ELSE <<>>) \o StripAll(Tail(parts))

VarsList(vars_str) == StripAll(Split(vars_str, ","))

\* var_name = var.split(':')[0].strip()
VarName(var) == Strip(Split(var, ":")[1])

\* used_vars: the members of vars_list whose var_name is used in text
RECURSIVE UsedVars(_, _)
UsedVars(vars_list, text) ==
  IF vars_list = <<>> THEN <<>>
  ELSE (IF is_variable_used(VarName(Head(vars_list)), text)
        THEN <<Head(vars_list)>> ELSE <<>>) \o UsedVars(Tail(vars_list), text)

\* body of the destructuring loop for match m
DestructuringEdit(text, m) ==
  LET vars_list == VarsList(m.group)
      used_vars == UsedVars(vars_list, text)
      new_line  == <<"c","o","n","s","t"," ","{"," ">> \o Join(used_vars, <<","," ">>) \o <<" ","}"," ","=">>
  IN IF Len(used_vars) < Len(vars_list)
     THEN Slice(text, 0, m.start) \o new_line \o SliceFrom(text, m.end)
     ELSE text

\* line_start, line_end of the simple loop for match m
LineStart(text, m) == RFind(text, "\n", m.start) + 1
LineEnd(text, m) ==
  LET e == Find(text, "\n", m.end) IN IF e = -1 THEN Len(text) ELSE e

\* the simple loop takes the branch `if not self.is_variable_used(...)`
JudgedUnused(text, m) == ~is_variable_used(m.group, text)

\* body of the simple loop for match m
SimpleEdit(text, m) ==
  LET line_start == LineStart(text, m)
      line_end   == LineEnd(text, m)
      line       == Slice(text, line_start, line_end)
  IN IF JudgedUnused(text, m) /\ Contains(line, m.group) /\ Contains(line, <<"=">>)
     THEN Slice(text, 0, line_start) \o SliceFrom(text, line_end + 1)
     ELSE text

\* the destructuring for-loop from its i-th match on
RECURSIVE DestructuringLoop(_, _, _)
DestructuringLoop(text, ms, i) ==
  IF i > Len(ms) THEN text ELSE DestructuringLoop(DestructuringEdit(text, ms[i]), ms, i + 1)

\* the simple-declaration for-loop from its i-th match on
RECURSIVE SimpleLoop(_, _, _)
SimpleLoop(text, ms, i) ==
  IF i > Len(ms) THEN text ELSE SimpleLoop(SimpleEdit(text, ms[i]), ms, i + 1)

\* remove_unused_variables as a function of its argument
remove_unused_variables(text) ==
  LET afterDestructuring == DestructuringLoop(text, DestructuringIter(text, 0), 1)
  IN SimpleLoop(afterDestructuring, SimpleIter(afterDestructuring, 0), 1)

----------------------------------------------------------------------------
(* fix-console-logging.py *)

ConsoleDot == <<"c","o","n","s","o","l","e",".">>
LoggerDot == <<"l","o","g","g","e","r",".">>
Quotes == {"\"", "'"}
Keywords == { <<"S","t","a","r","t">>, <<"C","o","m","p","l","e","t","e">>, <<"P","r","o","c","e","s","s">> }

\* the ten (pattern, replacement) pairs of replace_console_statements, in order:
\* shape of the pattern, console method matched, logger method written, and how
\* the replacement writes \2
Patterns ==
  << [shape |-> "two",     fn |-> <<"e","r","r","o","r">>, to |-> <<"e","r","r","o","r">>, wrap |-> "coerce"],
     [shape |-> "colon",   fn |-> <<"e","r","r","o","r">>, to |-> <<"e","r","r","o","r">>, wrap |-> "none"],
     [shape |-> "one",     fn |-> <<"e","r","r","o","r">>, to |-> <<"e","r","r","o","r">>, wrap |-> "none"],
     [shape |-> "two",     fn |-> <<"w","a","r","n">>,  to |-> <<"w","a","r","n">>,  wrap |-> "object"],
     [shape |-> "one",     fn |-> <<"w","a","r","n">>,  to |-> <<"w","a","r","n">>,  wrap |-> "none"],
     [shape |-> "keyword", fn |-> <<"l","o","g">>,   to |-> <<"i","n","f","o">>,  wrap |-> "none"],
     [shape |-> "two",     fn |-> <<"l","o","g">>,   to |-> <<"i","n","f","o">>,  wrap |-> "object"],
     [shape |-> "one",     fn |-> <<"l","o","g">>,   to |-> <<"d","e","b","u","g">>, wrap |-> "none"],
     [shape |-> "two",     fn |-> <<"i","n","f","o">>,  to |-> <<"i","n","f","o">>,  wrap |-> "object"],
     [shape |-> "one",     fn |-> <<"i","n","f","o">>,  to |-> <<"i","n","f","o">>,  wrap |-> "none"] >>

NoCall == [start |-> -1, end |-> -1, g1 |-> <<>>, g2 |-> <<>>]

\* first offset >= i holding a quote character, -1 when none
FindQuote(s, i) ==
  LET d == Find(s, "\"", i)
      q == Find(s, "'", i)
  IN IF d = -1 THEN q ELSE IF q = -1 THEN d ELSE Min(d, q)

\* r'console\.FN\s*\(\s*["\']([^"\']*)["\']' tried at offset p:
\* <<offset of the message, offset of its closing quote>>, <<-1, -1>> when no match
CallHeadAt(s, p, fn) ==
  LET name == ConsoleDot \o fn
      par  == SkipSpace(s, p + Len(name))
      oq   == SkipSpace(s, par + 1)
      cq   == FindQuote(s, oq + 1)
  IN IF /\ StartsWithAt(s, p, name)
        /\ CharAt(s, par) = "("
        /\ CharAt(s, oq) \in Quotes
        /\ cq # -1
     THEN <<oq + 1, cq>> ELSE <<-1, -1>>

\* pattern pat tried at offset p
CallMatchAt(s, p, pat) ==
  LET head == CallHeadAt(s, p, pat.fn)
      ms   == head[1]
      cq   == head[2]
      msg  == Slice(s, ms, cq)
      c    == SkipSpace(s, cq + 1)
  IN IF cq = -1 THEN NoCall
     ELSE IF pat.shape = "two" THEN
       \* ...\s*,\s*([^)]+)\)
       LET cp == Find(s, ")", c + 1)
           ws == SkipSpace(s, c + 1)
           gs == IF ws < cp THEN ws ELSE cp - 1
       IN IF CharAt(s, c) = "," /\ cp # -1 /\ cp > c + 1
          THEN [start |-> p, end |-> cp + 1, g1 |-> msg, g2 |-> Slice(s, gs, cp)]
          ELSE NoCall
     ELSE IF pat.shape = "colon" THEN
       \* ([^"\']*):["\']\s*,
       IF cq > ms /\ CharAt(s, cq - 1) = ":" /\ CharAt(s, c) = ","
       THEN [start |-> p, end |-> c + 1, g1 |-> Slice(s, ms, cq - 1), g2 |-> <<>>]
       ELSE NoCall
     ELSE IF pat.shape = "keyword" THEN
       \* ([^"\']*(?:Start|Complete|Process)[^"\']*)["\']\s*\)
       IF CharAt(s, c) = ")" /\ \E w \in Keywords : Contains(msg, w)
       THEN [start |-> p, end |-> c + 1, g1 |-> msg, g2 |-> <<>>]
       ELSE NoCall
     ELSE
       \* ...\s*\)
       IF CharAt(s, c) = ")"
       THEN [start |-> p, end |-> c + 1, g1 |-> msg, g2 |-> <<>>]
       ELSE NoCall

\* the replacement template of pat expanded for match m
Replacement(pat, m) ==
  LET head == LoggerDot \o pat.to \o <<"(","\"">> \o m.g1 \o <<"\"">> IN
  IF pat.shape = "colon" THEN head
  ELSE IF pat.shape = "two" THEN
    IF pat.wrap = "coerce"
    THEN head \o <<","," ">> \o m.g2 \o <<" ","i","n","s","t","a","n","c","e","o","f"," ","E","r","r","o","r"," ","?"," ">> \o m.g2
              \o <<" ",":"," ","n","e","w"," ","E","r","r","o","r","(","S","t","r","i","n","g","(">> \o m.g2 \o <<")",")",")">>
    ELSE head \o <<","," ","{"," ">> \o m.g2 \o <<" ","}",")">>
  ELSE head \o <<")">>

\* list(re.finditer(pattern, s)) from offset pos
RECURSIVE CallIter(_, _, _)
CallIter(s, pos, pat) ==
  LET hits == {p \in pos..(Len(s) - 1) : CallMatchAt(s, p, pat).start # -1} IN
  IF hits = {} THEN <<>>
  ELSE LET m == CallMatchAt(s, CHOOSE x \in hits : \A y \in hits : x <= y, pat)
       IN <<m>> \o CallIter(s, m.end, pat)

\* re.sub(pattern, replacement, s): the text between the matches ms[i..] kept,
\* each match replaced; pos is the offset reached
RECURSIVE SubFrom(_, _, _, _, _)
SubFrom(s, pos, ms, i, pat) ==
  IF i > Len(ms) THEN SliceFrom(s, pos)
  ELSE Slice(s, pos, ms[i].start) \o Replacement(pat, ms[i])
       \o SubFrom(s, ms[i].end, ms, i + 1, pat)

Sub(pat, s) == SubFrom(s, 0, CallIter(s, 0, pat), 1, pat)

\* for every character of Sub(pat, s): whether a replacement wrote it in this
\* call of replace_console_statements (marks are those of s)
RECURSIVE MarksFrom(_, _, _, _, _, _)
MarksFrom(s, marks, pos, ms, i, pat) ==
  IF i > Len(ms) THEN SliceFrom(marks, pos)
  ELSE Slice(marks, pos, ms[i].start)
       \o [j \in 1..Len(Replacement(pat, ms[i])) |-> TRUE]
       \o MarksFrom(s, marks, ms[i].end, ms, i + 1, pat)

SubMarks(pat, s, marks) == MarksFrom(s, marks, 0, CallIter(s, 0, pat), 1, pat)

\* the content after patterns k..10 have been substituted in order
RECURSIVE SubAll(_, _)
SubAll(s, k) == IF k > Len(Patterns) THEN s ELSE SubAll(Sub(Patterns[k], s), k + 1)

\* replace_console_statements: the returned content
replace_console_statements(text) == SubAll(text, 1)

KwImport == <<"i","m","p","o","r","t">>
KwFrom == <<"f","r","o","m">>
LoggerImport == <<"i","m","p","o","r","t"," ","{"," ","l","o","g","g","e","r"," ","}"," ","f","r","o","m"," ","'",".","/","l","o","g","g","i","n","g","'",";","\n">>

\* s.rfind(sub)
RFindText(s, sub) ==
  LET hits == {i \in 0..(Len(s) - Len(sub)) : StartsWithAt(s, i, sub)} IN
  IF hits = {} THEN -1 ELSE CHOOSE x \in hits : \A y \in hits : x >= y

\* end of the longest run of "\n" starting at i  (greedy \n*)
SkipNewlines(s, i) ==
  CHOOSE j \in i..Max(i, Len(s)) :
    /\ \A n \in i..(j - 1) : CharAt(s, n) = "\n"
    /\ CharAt(s, j) # "\n"

\* r'(import.*from[^\n]*;\n*)' tried at offset p: the offset behind the match,
\* -1 when no match.  `.` and [^\n] stay on the line, so the match runs to the
\* last ";" of the line that has a "from" between it and the "import".
ImportMatchEnd(s, p) ==
  LET nl   == Find(s, "\n", p)
      eol  == IF nl = -1 THEN Len(s) ELSE nl
      semi == {c \in (p + Len(KwImport))..(eol - 1) :
                 /\ s[c + 1] = ";"
                 /\ \E f \in (p + Len(KwImport))..(c - Len(KwFrom)) :
                      StartsWithAt(s, f, KwFrom)}
  IN IF StartsWithAt(s, p, KwImport) /\ semi # {}
     THEN SkipNewlines(s, (CHOOSE x \in semi : \A y \in semi : x >= y) + 1)
     ELSE -1

\* re.findall(import_pattern, s) from offset pos
RECURSIVE ImportIter(_, _)
ImportIter(s, pos) ==
  LET hits == {p \in pos..(Len(s) - 1) : ImportMatchEnd(s, p) # -1} IN
  IF hits = {} THEN <<>>
  ELSE LET p == CHOOSE x \in hits : \A y \in hits : x <= y
       IN <<Slice(s, p, ImportMatchEnd(s, p))>> \o ImportIter(s, ImportMatchEnd(s, p))

\* add_logger_import: <<new content, import_added>>.  The first test is a plain
\* substring test for the text 'import.*logger.*from'.
add_logger_import(text) ==
  LET imports == ImportIter(text, 0) IN
  IF Contains(text, <<"i","m","p","o","r","t",".","*","l","o","g","g","e","r",".","*","f","r","o","m">>) THEN <<text, FALSE>>
  ELSE IF imports = <<>> THEN <<LoggerImport \o <<"\n">> \o text, TRUE>>
  ELSE LET last == imports[Len(imports)]
           last_import_end == RFindText(text, last) + Len(last)
       IN <<Slice(text, 0, last_import_end) \o LoggerImport
              \o SliceFrom(text, last_import_end), TRUE>>

\* r'console\.(log|error|warn|info)' tried at offset p: the offset behind the
\* match, -1 when no match
ConsoleMatchEnd(s, p) ==
  LET fns == {fn \in { <<"l","o","g">>, <<"e","r","r","o","r">>, <<"w","a","r","n">>, <<"i","n","f","o">> } :
                StartsWithAt(s, p, ConsoleDot \o fn)}
  IN IF fns = {} THEN -1 ELSE p + Len(ConsoleDot) + Len(CHOOSE fn \in fns : TRUE)

\* len(re.findall(r'console\.(log|error|warn|info)', s)) from offset pos
RECURSIVE CountConsole(_, _)
CountConsole(s, pos) ==
  LET hits == {p \in pos..(Len(s) - 1) : ConsoleMatchEnd(s, p) # -1} IN
  IF hits = {} THEN 0
  ELSE 1 + CountConsole(s, ConsoleMatchEnd(s, CHOOSE x \in hits : \A y \in hits : x <= y))

----------------------------------------------------------------------------
(* The texts remove_unused_variables is applied to: up to MaxStmts statements, *)
(* each followed by a blank or a line break.                                   *)

MaxStmts == 3

Stmts ==
  { <<"c","o","n","s","t"," ","a"," ","="," ","1",";">>,
    <<"c","o","n","s","t"," ","b"," ","="," ","a",";">>,
    <<"l","e","t"," ","c"," ","="," ","2",";">>,
    <<"u","s","e","(","a",","," ","a","l",")",";">>,
    <<"c","o","n","s","t"," ","{"," ","a",","," ","b"," ","}"," ","="," ","o",";">>,
    <<"c","o","n","s","t"," ","{"," ","d"," ","}"," ","="," ","o",";">>,
    <<"c","o","n","s","t"," ","{"," ","a",","," ","s",":"," ","a","l"," ","}"," ","="," ","o",";">>,
    <<"v","a","r"," ","f"," ","="," ","(",")"," ","=",">"," ","{","\n"," ","g","(",")",";","\n","}",";">> }

Seps == { <<" ">>, <<"\n">> }

RECURSIVE TextsOfLen(_)
TextsOfLen(n) ==
  IF n = 0 THEN {<<>>}
  ELSE {t \o st \o sep : t \in TextsOfLen(n - 1), st \in Stmts, sep \in Seps}

Inputs == UNION {TextsOfLen(n) : n \in 1..MaxStmts}

----------------------------------------------------------------------------
(* remove_unused_variables, one loop iteration per step *)

\* the state of a tool that is not running
CleanerIdle ==
  /\ input = <<>> /\ content = <<>> /\ snap = <<>> /\ iter = <<>> /\ idx = 0
  /\ pc = "idle" /\ run = 0 /\ first = <<>> /\ judged = {}
LoggingIdle ==
  /\ calls = <<>> /\ original_content = <<>> /\ migrated = <<>> /\ rewritten = <<>>
  /\ step = 0 /\ replacements_made = 0
DriverIdle ==
  /\ tool = "none" /\ fs = <<>> /\ at = 0 /\ stage = "idle" /\ buf = <<>> /\ out = <<>>
  /\ total_files = 0 /\ modified_files = 0 /\ amount = 0
  /\ raised = {} /\ logged = {} /\ counted = {}

\* entry of remove_unused_variables on text: the first finditer is created
Enter(text) ==
  /\ content' = text
  /\ snap' = text
  /\ iter' = DestructuringIter(text, 0)
  /\ idx' = 1
  /\ pc' = "destructuring"

Init ==
  /\ input \in Inputs
  /\ content = input
  /\ snap = input
  /\ iter = DestructuringIter(input, 0)
  /\ idx = 1
  /\ pc = "destructuring"
  /\ run = 1
  /\ first = <<>>
  /\ judged = {}
  /\ LoggingIdle
  /\ DriverIdle

\* one iteration of `for match in re.finditer(destructuring_pattern, content)`
DestructuringStep ==
  /\ pc = "destructuring"
  /\ idx <= Len(iter)
  /\ content' = DestructuringEdit(content, iter[idx])
  /\ idx' = idx + 1
  /\ UNCHANGED <<input, snap, iter, pc, run, first, judged>>
  /\ UNCHANGED <<loggingVars, driverVars>>

\* the first loop is exhausted: re.finditer(simple_var_pattern, content) is created
BeginSimple ==
  /\ pc = "destructuring"
  /\ idx > Len(iter)
  /\ snap' = content
  /\ iter' = SimpleIter(content, 0)
  /\ idx' = 1
  /\ pc' = "simple"
  /\ UNCHANGED <<input, content, run, first, judged>>
  /\ UNCHANGED <<loggingVars, driverVars>>

\* one iteration of `for match in re.finditer(simple_var_pattern, content)`
SimpleStep ==
  /\ pc = "simple"
  /\ idx <= Len(iter)
  /\ content' = SimpleEdit(content, iter[idx])
  /\ judged' = IF run = 1 /\ JudgedUnused(content, iter[idx])
               THEN judged \cup {idx} ELSE judged
  /\ idx' = idx + 1
  /\ UNCHANGED <<input, snap, iter, pc, run, first>>
  /\ UNCHANGED <<loggingVars, driverVars>>

\* return content
Return ==
  /\ pc = "simple"
  /\ idx > Len(iter)
  /\ pc' = "done"
  /\ first' = IF run = 1 THEN content ELSE first
  /\ UNCHANGED <<input, content, snap, iter, idx, run, judged>>
  /\ UNCHANGED <<loggingVars, driverVars>>

\* the tool is run again on its own output
Reapply ==
  /\ pc = "done"
  /\ run = 1
  /\ run' = 2
  /\ Enter(content)
  /\ UNCHANGED <<input, first, judged>>
  /\ UNCHANGED <<loggingVars, driverVars>>

Next ==
  \/ DestructuringStep
  \/ BeginSimple
  \/ SimpleStep
  \/ Return
  \/ Reapply

Spec == Init /\ [][Next]_vars

----------------------------------------------------------------------------
(* replace_console_statements, one re.sub per step *)

MaxCalls == 2

Methods == { <<"e","r","r","o","r">>, <<"w","a","r","n">>, <<"l","o","g">>, <<"i","n","f","o">> }
\* first arguments: a message in its quotes
Literals == { <<"\"", <<"o","k">>>>, <<"'", <<"b","a","d",":">>>>, <<"\"", <<"S","t","a","r","t">>>> }
\* second arguments; <<>> stands for a call with one argument
Arguments == { <<>>, <<"e","r","r">>, <<"f","(","x",")">>, <<"c","o","n","s","o","l","e",".","w","a","r","n","(","'","w","'",","," ","x",")">> }

Calls == {[fn |-> f, q |-> l[1], msg |-> l[2], arg |-> a] :
            f \in Methods, l \in Literals, a \in Arguments}

\* the statement a call record stands for
CallText(c) ==
  ConsoleDot \o c.fn \o <<"(">> \o <<c.q>> \o c.msg \o <<c.q>>
    \o (IF c.arg = <<>> THEN <<>> ELSE <<","," ">> \o c.arg) \o <<")",";","\n">>

RECURSIVE FileText(_)
FileText(cs) == IF cs = <<>> THEN <<>> ELSE CallText(Head(cs)) \o FileText(Tail(cs))

CallSeqs == UNION {[1..n -> Calls] : n \in 1..MaxCalls}

LoggingInit ==
  /\ calls \in CallSeqs
  /\ original_content = FileText(calls)
  /\ migrated = original_content
  /\ rewritten = [j \in 1..Len(original_content) |-> FALSE]
  /\ step = 1
  /\ replacements_made = 0
  /\ CleanerIdle
  /\ DriverIdle

\* content = re.sub(pattern_k, replacement_k, content)
\* replacements_made += len(re.findall(pattern_k, original_content))
Substitute ==
  /\ step \in 1..Len(Patterns)
  /\ migrated' = Sub(Patterns[step], migrated)
  /\ rewritten' = SubMarks(Patterns[step], migrated, rewritten)
  /\ replacements_made' =
       replacements_made + Len(CallIter(original_content, 0, Patterns[step]))
  /\ step' = step + 1
  /\ UNCHANGED <<calls, original_content>>
  /\ UNCHANGED <<cleanerVars, driverVars>>

LoggingNext == Substitute

LoggingSpec == LoggingInit /\ [][LoggingNext]_vars

----------------------------------------------------------------------------
(* process_files / clean_file and process_all_files / process_file: one step  *)
(* per file operation.  Every file operation may raise.                       *)

MaxFiles == 2

FileTexts ==
  { <<"l","e","t"," ","c"," ","="," ","2",";","\n">>,
    <<"c","o","n","s","o","l","e",".","l","o","g","(","'","o","k","'",")",";","\n">>,
    <<"c","o","n","s","o","l","e",".","l","o","g","(","x",")",";","\n">>,
    <<"i","m","p","o","r","t"," ","{"," ","a"," ","}"," ","f","r","o","m"," ","'",".","/","a","'",";","\n","c","o","n","s","o","l","e",".","w","a","r","n","(","\"","w","\"",","," ","a",")",";","\n">>,
    <<"i","m","p","o","r","t"," ","{"," ","l","o","g","g","e","r"," ","}"," ","f","r","o","m"," ","'",".","/","l","o","g","g","i","n","g","'",";","\n","c","o","n","s","o","l","e",".","i","n","f","o","(","'","i","'",")",";","\n">> }

DriverInit ==
  /\ tool \in {"cleaner", "migrator"}
  /\ fs \in UNION {[1..n -> FileTexts] : n \in 1..MaxFiles}
  /\ at = 0
  /\ stage = "loop"
  /\ buf = <<>>
  /\ out = <<>>
  /\ total_files = 0
  /\ modified_files = 0
  /\ amount = 0
  /\ raised = {}
  /\ logged = {}
  /\ counted = {}
  /\ CleanerIdle
  /\ LoggingIdle

\* what the tool makes of the text it read
Transformed(text) ==
  IF tool = "cleaner" THEN remove_unused_variables(text)
  ELSE replace_console_statements(add_logger_import(text)[1])

\* fixed_count = before_count - after_count
FixedCount(before, after) == CountConsole(before, 0) - CountConsole(after, 0)

\* lines_removed = len(original_lines) - len(cleaned_lines)
LinesRemoved(before, after) == Count(before, "\n") - Count(after, "\n")

\* the test that guards the write
MustWrite(before, after) ==
  IF tool = "cleaner" THEN after # before ELSE FixedCount(before, after) > 0

\* the loop of process_files / process_all_files takes the next file
NextFile ==
  /\ stage = "loop"
  /\ at < Len(fs)
  /\ at' = at + 1
  /\ total_files' = total_files + 1
  /\ stage' = IF tool = "cleaner" THEN "read" ELSE "probe"
  /\ UNCHANGED <<tool, fs, buf, out, modified_files, amount, raised, logged, counted>>
  /\ UNCHANGED <<cleanerVars, loggingVars>>

\* has_console_statements reads the file; process_file returns False without it
Probe ==
  /\ stage = "probe"
  /\ stage' = IF CountConsole(fs[at], 0) > 0 THEN "read" ELSE "loop"
  /\ UNCHANGED <<tool, fs, at, buf, out, total_files, modified_files, amount,
                 raised, logged, counted>>
  /\ UNCHANGED <<cleanerVars, loggingVars>>

\* the read in has_console_statements raises: `except Exception: return False`
ProbeRaises ==
  /\ stage = "probe"
  /\ raised' = raised \cup {<<at, "probe">>}
  /\ stage' = "loop"
  /\ UNCHANGED <<tool, fs, at, buf, out, total_files, modified_files, amount,
                 logged, counted>>
  /\ UNCHANGED <<cleanerVars, loggingVars>>

\* original_content = f.read()
Read ==
  /\ stage = "read"
  /\ buf' = fs[at]
  /\ stage' = "transform"
  /\ UNCHANGED <<tool, fs, at, out, total_files, modified_files, amount,
                 raised, logged, counted>>
  /\ UNCHANGED <<cleanerVars, loggingVars>>

\* open() or f.read() raises inside the try block
ReadRaises ==
  /\ stage = "read"
  /\ raised' = raised \cup {<<at, "read">>}
  /\ stage' = "except"
  /\ UNCHANGED <<tool, fs, at, buf, out, total_files, modified_files, amount,
                 logged, counted>>
  /\ UNCHANGED <<cleanerVars, loggingVars>>

\* the transformation and the test that guards the write; without a write the
\* function returns False
Transform ==
  /\ stage = "transform"
  /\ out' = Transformed(buf)
  /\ stage' = IF MustWrite(buf, out') THEN "write" ELSE "loop"
  /\ UNCHANGED <<tool, fs, at, buf, total_files, modified_files, amount,
                 raised, logged, counted>>
  /\ UNCHANGED <<cleanerVars, loggingVars>>

\* an exception is raised while transforming
TransformRaises ==
  /\ stage = "transform"
  /\ raised' = raised \cup {<<at, "transform">>}
  /\ stage' = "except"
  /\ UNCHANGED <<tool, fs, at, buf, out, total_files, modified_files, amount,
                 logged, counted>>
  /\ UNCHANGED <<cleanerVars, loggingVars>>

\* f.write(content); self.modified_files += 1; the second counter; return True
Write ==
  /\ stage = "write"
  /\ fs' = [fs EXCEPT ![at] = out]
  /\ modified_files' = modified_files + 1
  /\ counted' = counted \cup {at}
  /\ amount' = amount + (IF tool = "cleaner" THEN LinesRemoved(buf, out)
                                               ELSE FixedCount(buf, out))
  /\ stage' = "loop"
  /\ UNCHANGED <<tool, at, buf, out, total_files, raised, logged>>
  /\ UNCHANGED <<cleanerVars, loggingVars>>

\* open(file_path, 'w') raises and the file is as it was, or f.write raises and
\* the file is left truncated
WriteRaises ==
  /\ stage = "write"
  /\ \E left \in {fs[at], <<>>} : fs' = [fs EXCEPT ![at] = left]
  /\ raised' = raised \cup {<<at, "write">>}
  /\ stage' = "except"
  /\ UNCHANGED <<tool, at, buf, out, total_files, modified_files, amount,
                 logged, counted>>
  /\ UNCHANGED <<cleanerVars, loggingVars>>

\* a handler that logs and lets the exception escape the loop: the run ends
ExceptEscapes ==
  /\ stage = "except"
  /\ logged' = logged \cup {at}
  /\ stage' = "done"
  /\ UNCHANGED <<tool, fs, at, buf, out, total_files, modified_files, amount,
                 raised, counted>>
  /\ UNCHANGED <<cleanerVars, loggingVars>>

\* except Exception as e: self.log(..., "ERROR"); return False
Except ==
  /\ stage = "except"
  /\ logged' = logged \cup {at}
  /\ stage' = "loop"
  /\ UNCHANGED <<tool, fs, at, buf, out, total_files, modified_files, amount,
                 raised, counted>>
  /\ UNCHANGED <<cleanerVars, loggingVars>>

\* the directory walk is exhausted
Finish ==
  /\ stage = "loop"
  /\ at = Len(fs)
  /\ stage' = "done"
  /\ UNCHANGED <<tool, fs, at, buf, out, total_files, modified_files, amount,
                 raised, logged, counted>>
  /\ UNCHANGED <<cleanerVars, loggingVars>>

DriverNext ==
  \/ NextFile
  \/ Probe
  \/ ProbeRaises
  \/ ReadRaises
  \/ Read
  \/ TransformRaises
  \/ Transform
  \/ WriteRaises
  \/ Write
  \/ Except
  \/ Finish

DriverSpec == DriverInit /\ [][DriverNext]_vars

\* the interpreter keeps running the loop: a step that can be taken is taken
DriverFairSpec == DriverSpec /\ WF_vars(DriverNext)

----------------------------------------------------------------------------
(* Properties of remove_unused_variables *)

Range(seq) == {seq[i] : i \in 1..Len(seq)}

\* the first application has returned
Returned == pc = "done" /\ run = 1

\* names declared in s: group(2) of every simple declaration and the var_name
\* of every member of every destructuring declaration
SimpleNames(s) == {m.group : m \in Range(SimpleIter(s, 0))}
MemberNames(s) ==
  UNION {{VarName(v) : v \in Range(VarsList(m.group))} : m \in Range(DestructuringIter(s, 0))}
DeclaredNames(s) == SimpleNames(s) \cup MemberNames(s)

\* whole-word occurrences of name in s outside its declaration: one is the declaration
OccurrencesOutside(name, s) == CountWord(s, 0, name) - 1

\* C1 (conservation of liveness): once remove_unused_variables has returned, every
\* name declared in the input that has at least one whole-word occurrence outside
\* its own declaration is still declared in the returned text.
C1_ConservationOfLiveness ==
  Returned =>
    \A name \in DeclaredNames(input) :
      OccurrencesOutside(name, input) >= 1 => name \in DeclaredNames(content)

\* destructuring declarations of s whose member list is empty
EmptyGroups(s) == {m \in Range(DestructuringIter(s, 0)) : VarsList(m.group) = <<>>}

\* destructuring declarations of s whose members are all judged unused
DeadGroups(s) ==
  {m \in Range(DestructuringIter(s, 0)) :
     VarsList(m.group) # <<>> /\ UsedVars(VarsList(m.group), s) = <<>>}

\* C2 (no false emptying): a destructuring declaration all of whose members are
\* judged unused is byte-identical in the returned text, and the returned text has
\* no destructuring declaration with an empty member list unless the input had one.
C2_NoFalseEmptying ==
  Returned =>
    /\ \A m \in DeadGroups(input) : Contains(content, Slice(input, m.start, m.end))
    /\ EmptyGroups(input) = {} => EmptyGroups(content) = {}

\* C3 (idempotence): applying remove_unused_variables to its own result returns
\* that result.
C3_Idempotence == (pc = "done" /\ run = 2) => content = first

Balanced(s) == Count(s, "{") = Count(s, "}") /\ Count(s, "(") = Count(s, ")")

\* C4 (non-corruption): a text with as many "{" as "}" and as many "(" as ")" is
\* returned with the same two equalities.
C4_NonCorruption == (Returned /\ Balanced(input)) => Balanced(content)

\* s without the characters at 0-based offsets lo..hi of any span <<lo, hi>>
RECURSIVE WithoutSpans(_, _, _)
WithoutSpans(s, spans, p) ==
  IF p >= Len(s) THEN <<>>
  ELSE (IF \E sp \in spans : sp[1] <= p /\ p <= sp[2] THEN <<>> ELSE <<s[p + 1]>>)
       \o WithoutSpans(s, spans, p + 1)

\* line spans, trailing line break included, of the declarations judged unused
JudgedLineSpans == {<<LineStart(snap, iter[i]), LineEnd(snap, iter[i])>> : i \in judged}

\* C7 (dead simple declaration removal): when the destructuring loop changed
\* nothing, the returned text is the input without the line spans of the simple
\* declarations judged unused, and every other character is unchanged.
C7_DeadDeclarationRemoval ==
  (Returned /\ snap = input) => content = WithoutSpans(input, JudgedLineSpans, 0)

\* the name a member binds: the alias of `source: alias`, else the member itself
BoundName(var) ==
  LET parts == Split(var, ":") IN
  IF Len(parts) > 1 THEN Strip(parts[2]) ELSE Strip(parts[1])

\* the members of vars_list whose bound name occurs outside the declaration
RECURSIVE LiveMembers(_, _)
LiveMembers(vars_list, s) ==
  IF vars_list = <<>> THEN <<>>
  ELSE (IF OccurrencesOutside(BoundName(Head(vars_list)), s) >= 1
        THEN <<Head(vars_list)>> ELSE <<>>) \o LiveMembers(Tail(vars_list), s)

\* s with the member list of ms[i], ms[i-1], ..., ms[1] filtered to its live members
RECURSIVE FilteredGroups(_, _, _, _)
FilteredGroups(s, orig, ms, i) ==
  IF i = 0 THEN s
  ELSE LET m == ms[i]
           members == LiveMembers(VarsList(m.group), orig)
           decl == <<"c","o","n","s","t"," ","{"," ">> \o Join(members, <<","," ">>) \o <<" ","}"," ","=">>
       IN FilteredGroups(
            IF Len(members) < Len(VarsList(m.group))
            THEN Slice(s, 0, m.start) \o decl \o SliceFrom(s, m.end) ELSE s,
            orig, ms, i - 1)

\* every destructuring declaration of s keeps at least one member
EveryGroupKeepsAMember(s) ==
  \A m \in Range(DestructuringIter(s, 0)) : LiveMembers(VarsList(m.group), s) # <<>>

\* C8 (destructuring member filtering): when the destructuring loop has finished
\* on an input whose destructuring declarations each have a used member, every
\* declaration holds exactly its used members, in order and with their original
\* text (a `source: alias` member counts as used when its alias is referenced),
\* and the rest of the text is unchanged.
C8_MemberFiltering ==
  (pc = "simple" /\ idx = 1 /\ run = 1 /\ EveryGroupKeepsAMember(input)) =>
    content = FilteredGroups(input, input, DestructuringIter(input, 0),
                             Len(DestructuringIter(input, 0)))

\* the edits one pass plans for s, as half-open spans
PlannedRewrites(s) ==
  {[kind |-> "rewrite", lo |-> m.start, hi |-> m.end] :
     m \in {x \in Range(DestructuringIter(s, 0)) :
              /\ UsedVars(VarsList(x.group), s) # <<>>
              /\ Len(UsedVars(VarsList(x.group), s)) < Len(VarsList(x.group))}}
PlannedRemovals(s) ==
  {[kind |-> "remove", lo |-> LineStart(s, m), hi |-> LineEnd(s, m) + 1] :
     m \in {x \in Range(SimpleIter(s, 0)) : JudgedUnused(s, x)}}

\* a member rewrite and a line removal planned for s overlap
PlanConflict(s) ==
  \E a \in PlannedRewrites(s), b \in PlannedRemovals(s) : a.lo < b.hi /\ b.lo < a.hi

\* C9 (file-level atomicity on conflict): when a planned member rewrite overlaps a
\* planned line removal, remove_unused_variables returns its input unchanged.
C9_AtomicOnConflict == (Returned /\ PlanConflict(input)) => content = input

\* the loop is about to run its body for the match iter[idx]
AtMatch == pc \in {"destructuring", "simple"} /\ idx <= Len(iter)

\* the span of the match iter[idx] holds, in the buffer as it is now, the text
\* the match was found on
SpanHoldsMatch ==
  Slice(content, iter[idx].start, iter[idx].end) = Slice(snap, iter[idx].start, iter[idx].end)

\* C11 (edit offsets stay valid): every iteration of either loop that changes the
\* buffer splices at a span which, in the buffer at that moment, holds the
\* declaration its match was found on.
C11_EditOffsetsValid == [][(AtMatch /\ content' # content) => SpanHoldsMatch]_vars

\* offsets of s at which name stands as a complete identifier: no word character
\* directly before it or directly behind it
WholeOccurrences(name, s) ==
  {p \in 0..Len(s) : /\ StartsWithAt(s, p, name)
                     /\ ~IsWord(CharAt(s, p - 1))
                     /\ ~IsWord(CharAt(s, p + Len(name)))}

\* offsets of s at which name stands, inside a longer identifier or not
SubstringOccurrences(name, s) == {p \in 0..Len(s) : StartsWithAt(s, p, name)}

\* the verdict the definition of usage gives for name in scope
Used(name, scope) == Cardinality(WholeOccurrences(name, scope)) - 1 >= 1

\* C12 (usage verdict): for every declared name and every buffer the pass goes
\* through, is_variable_used is true exactly when the whole-identifier
\* occurrences of the name in the buffer, less one, are at least one; and the
\* verdict the simple loop takes for its match is that same function of the name
\* and the buffer, whichever candidates were examined before it.
C12_UsageVerdict ==
  /\ [](\A name \in DeclaredNames(input) :
          is_variable_used(name, content) <=> Used(name, content))
  /\ [][(pc = "simple" /\ idx <= Len(iter) /\ run = 1) =>
          ((idx \in judged') <=> ~Used(iter[idx].group, content))]_vars

\* the simple loop judged one name used and a later one unused, and the unused
\* name still stands in the buffer inside a longer identifier
C12_Witness ==
  /\ pc = "simple" /\ run = 1
  /\ \E i \in judged, j \in 1..(idx - 1) :
       /\ j < i /\ j \notin judged
       /\ SubstringOccurrences(iter[i].group, content) # {}
       /\ WholeOccurrences(iter[i].group, content) = {}

----------------------------------------------------------------------------
(* Properties of replace_console_statements *)

\* replace_console_statements has returned
Migrated == step = Len(Patterns) + 1

\* E instanceof Error ? E : new Error(String(E))
Coerced(e) ==
  e \o <<" ","i","n","s","t","a","n","c","e","o","f"," ","E","r","r","o","r"," ","?"," ">> \o e \o <<" ",":"," ","n","e","w"," ","E","r","r","o","r","(","S","t","r","i","n","g","(">> \o e \o <<")",")">>

\* the logger.error statement a console.error call is to become
ExpectedErrorCall(c) ==
  LoggerDot \o <<"e","r","r","o","r","(","\"">> \o c.msg \o <<"\"">>
    \o (IF c.arg = <<>> THEN <<>> ELSE <<","," ">> \o Coerced(c.arg)) \o <<")",";","\n">>

RECURSIVE ExpectedErrorFile(_)
ExpectedErrorFile(cs) ==
  IF cs = <<>> THEN <<>> ELSE ExpectedErrorCall(Head(cs)) \o ExpectedErrorFile(Tail(cs))

\* C5 (call-rewrite correctness): a file of console.error calls is returned with
\* every one-argument call as logger.error("msg") and every two-argument call as
\* logger.error("msg", E instanceof Error ? E : new Error(String(E))), E being the
\* whole second argument.
C5_CallRewrite ==
  (Migrated /\ \A i \in 1..Len(calls) : calls[i].fn = <<"e","r","r","o","r">>) =>
    migrated = ExpectedErrorFile(calls)

\* C6 (first match wins): the pattern about to be substituted matches no text
\* that a replacement of an earlier pattern wrote in the same call.
C6_FirstMatchWins ==
  step \in 1..Len(Patterns) =>
    \A m \in Range(CallIter(migrated, 0, Patterns[step])) :
      \A j \in (m.start + 1)..m.end : ~rewritten[j]

----------------------------------------------------------------------------
(* Properties of the per-file loop *)

\* clean_file / process_file is not running
AtRest == stage \in {"loop", "done"}

\* files on which some operation raised
RaisedFiles == {r[1] : r \in raised}

\* no file with an error is counted as modified, and the loop has visited every
\* file when the run ends
CountedAndContinued ==
  /\ counted \cap RaisedFiles = {}
  /\ modified_files = Cardinality(counted)
  /\ total_files = at
  /\ stage = "done" => total_files = Len(fs)

\* C10 (per-file failure isolation): every error raised while reading,
\* transforming or writing a file is caught and logged, the file is not counted in
\* modified_files, and every later file is processed up to the end of the file set.
C10_FailureIsolation ==
  /\ [](AtRest => RaisedFiles \subseteq logged)
  /\ []CountedAndContinued
  /\ <>(stage = "done")

\* C10 (per-file failure isolation, silent probe): the error is caught; it is logged unless the read inside
\* has_console_statements raised it, which returns False without a log line; the
\* file is not counted in modified_files and every later file is processed up to
\* the end of the file set.
C10_FailureIsolationAmended ==
  /\ [](AtRest => \A r \in raised : (r[2] # "probe") <=> (r[1] \in logged))
  /\ []CountedAndContinued
  /\ <>(stage = "done")

\* a write raised on the first file, was logged, and the second file was
\* modified and counted before the run ended
C10_Witness ==
  /\ stage = "done"
  /\ <<1, "write">> \in raised
  /\ 1 \in logged
  /\ 2 \in counted
  /\ modified_files = 1

\* offsets of s at which the line `import { logger } from './logging';` stands
LoggerImportLines(s) == {p \in 0..Len(s) : StartsWithAt(s, p, LoggerImport)}

\* C13 (logger import added at most once): add_logger_import returns a text that
\* already imports logger unchanged, with import_added False, and every file the
\* migrator has written holds the logger import line exactly once.
C13_LoggerImportOnce ==
  tool = "migrator" =>
    /\ (stage = "transform" /\ LoggerImportLines(buf) # {}) =>
         add_logger_import(buf) = <<buf, FALSE>>
    /\ \A i \in counted : Cardinality(LoggerImportLines(fs[i])) = 1

====
